---------------------------- MODULE Spec2Model ----------------------------
(* A model of pcpp.py, a C preprocessor: the token utilities, the macro    *)
(* table (define, undef, macro_prescan), the expander (expand_macros,      *)
(* macro_expand_args), the directive interpreter (parsegen, include) and   *)
(* the writer (write).                                                     *)
(*                                                                         *)
(* Python lists are sequences; indices and slice bounds keep Python's      *)
(* 0-based values (At, Slice, Splice convert), so that every index         *)
(* expression can be read against the source.                              *)
EXTENDS Integers, Sequences, FiniteSets, TLC

(***************************************************************************)
(* Bounds of the model.                                                    *)
(***************************************************************************)
\* Depth of nested expand_macros / macro_expand_args calls at which the
\* Python runtime gives up with RecursionError.
MaxDepth == 9
\* No further call is made once this many diagnostics have been reported.
MaxDiag == 2

(***************************************************************************)
(* Tokens.  A LexToken has type, value, lineno, source and expanded_from.  *)
(* source is Absent when the token was made by tokenize() (define() of a   *)
(* string) and never went through group_lines.  expanded_from is <<>>      *)
(* both when the attribute is missing and when it is the empty list: the   *)
(* code fills the attribute in before every read.                          *)
(* chain is an observer, never read by the code modelled here: the set of  *)
(* macros whose expansion produced the token.                              *)
(* obj is an observer too: the identity of the token object.  A caller may *)
(* number the tokens it hands in (obj > 0, one number per object); obj = 0 *)
(* is an object of its own, made by the lexer or by copy.copy and met      *)
(* nowhere else.  Two tokens with the same obj > 0 are one object.         *)
(***************************************************************************)
t_ID      == "CPP_ID"
t_INTEGER == "CPP_INTEGER"
t_STRING  == "CPP_STRING"
t_SPACE   == "CPP_WS"
t_NEWLINE == "CPP_WS"
t_WS      == {t_SPACE, t_NEWLINE}

Absent == "<absent>"
None   == "<None>"

Tok(type, value, lineno, source) ==
  [type |-> type, value |-> value, lineno |-> lineno, source |-> source,
   expanded_from |-> <<>>, chain |-> {}, obj |-> 0]

\* Tokens as tokenize() returns them: no source attribute.
ID(v)    == Tok(t_ID, v, 1, Absent)
INT(v)   == Tok(t_INTEGER, v, 1, Absent)
STR(v)   == Tok(t_STRING, v, 1, Absent)
PUNCT(v) == Tok(v, v, 1, Absent)
POUND    == Tok("CPP_POUND", "#", 1, Absent)
DPOUND   == Tok("CPP_DPOUND", "##", 1, Absent)
SP       == Tok(t_SPACE, " ", 1, Absent)
NL       == Tok(t_NEWLINE, "\n", 1, Absent)
\* A comment over three lines: the lexer makes it whitespace of three newlines
NL3      == Tok(t_NEWLINE, "\n\n\n", 1, Absent)

(***************************************************************************)
(* Python list operations.                                                 *)
(***************************************************************************)
At(s, i) == s[i + 1]

\* s[a:b]
Slice(s, a, b) == SubSeq(s, a + 1, b)

\* s[a:b] = r
Splice(s, a, b, r) == SubSeq(s, 1, a) \o r \o SubSeq(s, b + 1, Len(s))

\* del s[i]
DelAt(s, i) == SubSeq(s, 1, i) \o SubSeq(s, i + 2, Len(s))

\* A list made element by element (a comprehension, a for loop over a list)
List(f) == SubSeq(f, 1, Len(f))

\* x in s
InSeq(x, s) == \E k \in 1..Len(s) : s[k] = x

\* s.index(x)
IndexOf(x, s) == (CHOOSE k \in 1..Len(s) : s[k] = x /\ \A l \in 1..(k - 1) : s[l] # x) - 1

RECURSIVE Concat(_)
Concat(ss) == IF ss = <<>> THEN <<>> ELSE Head(ss) \o Concat(Tail(ss))

(***************************************************************************)
(* tokenstrip(): remove leading and trailing whitespace tokens.            *)
(***************************************************************************)
RECURSIVE LeadingWS(_, _)
LeadingWS(tokens, i) ==
  IF i < Len(tokens) /\ At(tokens, i).type \in t_WS
  THEN LeadingWS(tokens, i + 1) ELSE i

RECURSIVE TrailingWS(_, _)
TrailingWS(tokens, i) ==
  IF i >= 0 /\ At(tokens, i).type \in t_WS
  THEN TrailingWS(tokens, i - 1) ELSE i

Tokenstrip(tokens) ==
  LET rest == Slice(tokens, LeadingWS(tokens, 0), Len(tokens))
  IN  Slice(rest, 0, TrailingWS(rest, Len(rest) - 1) + 1)

(***************************************************************************)
(* collect_args(): the arguments of a parenthesised list.  The result has  *)
(* tokcount, args, positions and err, the message error() was called with  *)
(* (NoErr when it was not called).                                         *)
(***************************************************************************)
NoErr == "<no error>"

CollectFail(ignore_errors, msg) ==
  [tokcount |-> 0, args |-> <<>>, positions |-> <<>>,
   err |-> IF ignore_errors THEN NoErr ELSE msg]

RECURSIVE CollectLoop(_, _, _, _, _, _, _)
CollectLoop(tokenlist, ignore_errors, i, nesting, current_arg, args, positions) ==
  IF i >= Len(tokenlist)
  THEN CollectFail(ignore_errors, "Missing ')' in macro arguments")
  ELSE
    LET t == At(tokenlist, i) IN
    IF t.value = "("
    THEN CollectLoop(tokenlist, ignore_errors, i + 1, nesting + 1,
                     Append(current_arg, t), args, positions)
    ELSE IF t.value = ")"
    THEN IF nesting - 1 = 0
         THEN [tokcount |-> i + 1,
               args |-> Append(args, Tokenstrip(current_arg)),
               positions |-> Append(positions, i),
               err |-> NoErr]
         ELSE CollectLoop(tokenlist, ignore_errors, i + 1, nesting - 1,
                          Append(current_arg, t), args, positions)
    ELSE IF t.value = "," /\ nesting = 1
    THEN CollectLoop(tokenlist, ignore_errors, i + 1, nesting, <<>>,
                     Append(args, Tokenstrip(current_arg)),
                     Append(positions, i + 1))
    ELSE CollectLoop(tokenlist, ignore_errors, i + 1, nesting,
                     Append(current_arg, t), args, positions)

CollectArgs(tokenlist, ignore_errors) ==
  LET i == LeadingWS(tokenlist, 0) IN
  IF i < Len(tokenlist) /\ At(tokenlist, i).value = "("
  THEN CollectLoop(tokenlist, ignore_errors, i + 1, 1, <<>>, <<>>, <<i + 1>>)
  ELSE CollectFail(ignore_errors, "Missing '(' in macro arguments")

(***************************************************************************)
(* Macro objects.  arglist is NoArglist (Python's None) for an object-like *)
(* macro.  The three patch lists are filled by macro_prescan for           *)
(* function-like macros only.                                              *)
(***************************************************************************)
NoArglist == <<None>>

Macro(name, value, arglist, variadic) ==
  [name |-> name, value |-> value, arglist |-> arglist, variadic |-> variadic,
   patch |-> <<>>, str_patch |-> <<>>, var_comma_patch |-> <<>>]

\* macro.vararg: arglist[-1]
Vararg(m) == m.arglist[Len(m.arglist)]

\* patch.sort(key=lambda x: x[2], reverse=True): by position, descending,
\* entries of equal position keeping their order.
RECURSIVE SortPatch(_)
SortPatch(patch) ==
  IF patch = <<>> THEN <<>>
  ELSE LET k == CHOOSE k \in 1..Len(patch) :
                  /\ \A l \in 1..Len(patch) : patch[l][3] <= patch[k][3]
                  /\ \A l \in 1..(k - 1) : patch[l][3] < patch[k][3]
       IN  <<patch[k]>> \o SortPatch(DelAt(patch, k - 1))

(***************************************************************************)
(* macro_prescan(): find the patch points of a replacement list.           *)
(***************************************************************************)
RECURSIVE PrescanLoop(_, _, _)
PrescanLoop(macro, i, vararg) ==
  LET value == macro.value IN
  IF i >= Len(value) THEN macro
  ELSE
    LET v == At(value, i) IN
    IF v.type = t_ID /\ InSeq(v.value, macro.arglist)
    THEN
      LET argnum == IndexOf(v.value, macro.arglist)
          j      == TrailingWS(value, i - 1)
      IN
      IF j >= 0 /\ At(value, j).value = "#"
      THEN \* Conversion of argument to a string: the '#' and the
           \* whitespace after it are deleted, the parameter lands at j
           PrescanLoop(
             [macro EXCEPT
                !.value = Splice(value, j, i + 1, <<[v EXCEPT !.type = t_STRING, !.obj = 0]>>),
                !.str_patch = Append(@, <<argnum, j>>)],
             j, vararg)
      ELSE IF i > 0 /\ At(value, i - 1).value = "##"
      THEN \* Concatenation, '##' before the parameter
           PrescanLoop(
             [macro EXCEPT
                !.value = DelAt(value, i - 1),
                !.patch = Append(@, <<"c", argnum, i - 1>>)],
             i, vararg)
      ELSE IF (i + 1) < Len(value) /\ At(value, i + 1).value = "##"
      THEN \* Concatenation, '##' after the parameter
           PrescanLoop([macro EXCEPT !.patch = Append(@, <<"c", argnum, i>>)],
                       i + 1, vararg)
      ELSE \* Standard expansion
           PrescanLoop([macro EXCEPT !.patch = Append(@, <<"e", argnum, i>>)],
                       i + 1, vararg)
    ELSE IF v.value = "##"
    THEN
      IF /\ macro.variadic /\ i > 0 /\ At(value, i - 1).value = ","
         /\ (i + 1) < Len(value) /\ At(value, i + 1).type = t_ID
         /\ At(value, i + 1).value = vararg
      THEN PrescanLoop([macro EXCEPT !.var_comma_patch = Append(@, i - 1)],
                       i + 1, vararg)
      ELSE PrescanLoop(macro, i + 1, vararg)
    ELSE PrescanLoop(macro, i + 1, vararg)

MacroPrescan(macro) ==
  LET m == PrescanLoop(macro, 0, IF macro.variadic THEN Vararg(macro) ELSE None)
  IN  [m EXCEPT !.patch = SortPatch(@)]

(***************************************************************************)
(* define(): define a new macro from the tokens of a definition.  The      *)
(* result has the new macro table, errs (the messages error() was called   *)
(* with, in order) and exc (the exception that left define(), or NoExc).   *)
(***************************************************************************)
NoExc == "<no exception>"

\* self.macros[name] = m
SetMacro(macros, name, m) ==
  [n \in (DOMAIN macros) \cup {name} |-> IF n = name THEN m ELSE macros[n]]

\* del self.macros[name]
DelMacro(macros, name) == [n \in (DOMAIN macros) \ {name} |-> macros[n]]

\* astr == "...": the argument is spelled by three '.' tokens
IsDots(a) == Len(a) = 3 /\ \A k \in 1..3 : a[k].value = "."

\* astr[-3:] == "...": the argument's spelling ends in three '.' tokens
EndsInDots(a) == Len(a) >= 3 /\ \A k \in (Len(a) - 2)..Len(a) : a[k].value = "."

\* for a in args: ... else: ...   The result says how the loop ended:
\* "done" (the else branch runs), "break", or an exception.
RECURSIVE DefineArgs(_, _, _)
DefineArgs(args, k, variadic) ==
  IF k >= Len(args)
  THEN [how |-> "done", args |-> args, variadic |-> variadic, err |-> NoErr]
  ELSE
    LET a == At(args, k) IN
    IF variadic
    THEN [how |-> "break", args |-> args, variadic |-> variadic,
          err |-> "No more arguments may follow a variadic argument"]
    ELSE IF IsDots(a)
    THEN DefineArgs(
           [args EXCEPT ![k + 1] =
              <<[a[1] EXCEPT !.type = t_ID, !.value = "__VA_ARGS__"]>>],
           k + 1, TRUE)
    ELSE IF EndsInDots(a) /\ a[1].type = t_ID
    THEN DefineArgs([args EXCEPT ![k + 1] = <<a[1]>>], k + 1, TRUE)
    ELSE IF Len(a) = 0 /\ Len(args) = 1
    THEN DefineArgs(args, k + 1, variadic)
    ELSE IF Len(a) > 1
    THEN \* self.error(a.source, ...): a is a list
         [how |-> "AttributeError", args |-> args, variadic |-> variadic, err |-> NoErr]
    ELSE IF Len(a) = 0
    THEN \* a[0] of an empty argument
         [how |-> "IndexError", args |-> args, variadic |-> variadic, err |-> NoErr]
    ELSE IF a[1].type # t_ID
    THEN [how |-> "AttributeError", args |-> args, variadic |-> variadic, err |-> NoErr]
    ELSE DefineArgs(args, k + 1, variadic)

\* The loop of define() that removes whitespace next to '##'.
RECURSIVE StripAroundPaste(_, _)
StripAroundPaste(mvalue, i) ==
  IF i >= Len(mvalue) THEN mvalue
  ELSE IF i + 1 < Len(mvalue)
          /\ At(mvalue, i).type \in t_WS /\ At(mvalue, i + 1).value = "##"
  THEN StripAroundPaste(DelAt(mvalue, i), i)
  ELSE IF i + 1 < Len(mvalue)
          /\ At(mvalue, i).value = "##" /\ At(mvalue, i + 1).type \in t_WS
  THEN StripAroundPaste(DelAt(mvalue, i + 1), i + 1)
  ELSE StripAroundPaste(mvalue, i + 1)

DefResult(macros, errs, exc) == [macros |-> macros, errs |-> errs, exc |-> exc]

\* The branch of define() for a macro with arguments.
DefineFunction(macros, linetok) ==
  LET name == At(linetok, 0)
      ca   == CollectArgs(Slice(linetok, 1, Len(linetok)), FALSE)
      errs == IF ca.err = NoErr THEN <<>> ELSE <<ca.err>>
      lp   == DefineArgs(ca.args, 0, FALSE)
  IN
  IF ca.err # NoErr /\ linetok[Len(linetok)].source = Absent
  THEN \* collect_args: self.error(tokenlist[-1].source, ...)
       DefResult(macros, <<>>, "AttributeError")
  ELSE IF lp.how = "break"
  THEN IF name.source = Absent THEN DefResult(macros, errs, "AttributeError")
       ELSE DefResult(macros, Append(errs, lp.err), NoExc)
  ELSE IF lp.how # "done" THEN DefResult(macros, errs, lp.how)
  ELSE
    LET mvalue  == StripAroundPaste(
                     Tokenstrip(Slice(linetok, 1 + ca.tokcount, Len(linetok))), 0)
        arglist == IF lp.args # <<<<>>>>
                   THEN List([k \in 1..Len(lp.args) |-> lp.args[k][1].value])
                   ELSE <<>>
        m       == Macro(name.value, mvalue, arglist, lp.variadic)
    IN
    IF lp.variadic /\ arglist = <<>>
    THEN DefResult(macros, errs, "IndexError")
    ELSE DefResult(SetMacro(macros, name.value, MacroPrescan(m)), errs, NoExc)

Define(macros, linetok) ==
  IF Len(linetok) = 0 THEN DefResult(macros, <<>>, "IndexError")
  ELSE
    LET name == At(linetok, 0) IN
    IF Len(linetok) = 1
    THEN DefResult(SetMacro(macros, name.value,
                            Macro(name.value, <<>>, NoArglist, FALSE)), <<>>, NoExc)
    ELSE
      LET mtype == At(linetok, 1) IN
      IF mtype.type \in t_WS
      THEN \* A normal macro
           DefResult(SetMacro(macros, name.value,
                       Macro(name.value, Tokenstrip(Slice(linetok, 2, Len(linetok))),
                             NoArglist, FALSE)), <<>>, NoExc)
      ELSE IF mtype.value = "("
      THEN DefineFunction(macros, linetok)
      ELSE IF name.source = Absent THEN DefResult(macros, <<>>, "AttributeError")
      ELSE DefResult(macros, <<"Bad macro definition">>, NoExc)

(***************************************************************************)
(* undef(): remove a macro; silent when it is not defined.                 *)
(***************************************************************************)
Undef(macros, tokens) ==
  IF Len(tokens) = 0 THEN DefResult(macros, <<>>, "IndexError")
  ELSE DefResult(DelMacro(macros, At(tokens, 0).value), <<>>, NoExc)

(***************************************************************************)
(* macro_expand_args() and expand_macros().  Both return a record: toks    *)
(* (the token list returned), errs (the messages error() was called with), *)
(* exc (the exception that ended the call, or NoExc) and rehit (observer:  *)
(* some token naming a macro M was expanded although M is in the token's   *)
(* chain).                                                                 *)
(***************************************************************************)
ExpResult(toks, errs, exc, rehit) ==
  [toks |-> toks, errs |-> errs, exc |-> exc, rehit |-> rehit]

\* rep[i] = None
NoneTok == Tok(None, None, 0, Absent)

\* str.replace("\\","\\\\").replace('"','\\"') on the spelling of one token.
\* The table lists the spellings of the model's alphabets that hold a
\* backslash or a double quote; every other spelling is left as it is.
EscapeTable ==
  [v \in {"\"s\"", "\\"} |-> IF v = "\\" THEN "\\\\" ELSE "\\\"s\\\""]

Escape(v) == IF v \in DOMAIN EscapeTable THEN EscapeTable[v] ELSE v

\* tokens[j].value = ' ' for every whitespace token of the argument
BlankWS(tokens) ==
  List([k \in 1..Len(tokens) |->
     IF tokens[k].type \in t_WS THEN [tokens[k] EXCEPT !.value = " "] ELSE tokens[k]])

\* Collapse all multiple whitespace
RECURSIVE CollapseWS(_, _)
CollapseWS(tokens, j) ==
  IF j >= Len(tokens) - 1 THEN tokens
  ELSE IF At(tokens, j).type \in t_WS /\ At(tokens, j + 1).type \in t_WS
  THEN CollapseWS(DelAt(tokens, j + 1), j)
  ELSE CollapseWS(tokens, j + 1)

RECURSIVE JoinValues(_)
JoinValues(tokens) ==
  IF tokens = <<>> THEN "" ELSE Escape(Head(tokens).value) \o JoinValues(Tail(tokens))

\* str_expansion[argnum]
Stringify(arg) == "\"" \o JoinValues(CollapseWS(BlankWS(arg), 0)) \o "\""

\* The string patches: rep[i].value = str_expansion[argnum]; the whitespace
\* tokens of a stringified argument are overwritten in the argument itself.
RECURSIVE StrPatches(_, _, _, _)
StrPatches(str_patch, k, rep, args) ==
  IF k > Len(str_patch) THEN [rep |-> rep, args |-> args]
  ELSE LET argnum == str_patch[k][1]
           i      == str_patch[k][2]
       IN  StrPatches(str_patch, k + 1,
                      [rep EXCEPT ![i + 1].value = Stringify(At(args, argnum))],
                      [args EXCEPT ![argnum + 1] = BlankWS(@)])

\* The variadic comma patch: rep[i] = None
CommaPatch(macro, rep, args) ==
  IF macro.variadic /\ args[Len(args)] = <<>>
  THEN List([k \in 1..Len(rep) |->
          IF InSeq(k - 1, macro.var_comma_patch) THEN NoneTok ELSE rep[k]])
  ELSE rep

\* [copy.copy(_x) for _x in value]: new objects
Copy(value) == List([k \in 1..Len(value) |-> [value[k] EXCEPT !.obj = 0]])

RECURSIVE ExpandMacros(_, _, _, _)
RECURSIVE ExpandLoop(_, _, _, _, _, _, _)
RECURSIVE ArgPatches(_, _, _, _, _, _, _, _, _)
RECURSIVE MacroExpandArgs(_, _, _, _)

\* The loop over macro.patch.  expanded is the set of argument numbers
\* already expanded: expand_macros works on args[argnum] in place, so the
\* expanded list is args[argnum] itself from then on.
ArgPatches(patch, k, rep, args, expanded, depth, macros, errs, rehit) ==
  IF k > Len(patch) THEN [rep |-> rep, errs |-> errs, exc |-> NoExc, rehit |-> rehit]
  ELSE
    LET ptype  == patch[k][1]
        argnum == patch[k][2]
        i      == patch[k][3]
    IN
    IF ptype = "c"
    THEN \* Concatenation.  Argument is left unexpanded
         ArgPatches(patch, k + 1, Splice(rep, i, i + 1, At(args, argnum)),
                    args, expanded, depth, macros, errs, rehit)
    ELSE IF argnum \in expanded
    THEN ArgPatches(patch, k + 1, Splice(rep, i, i + 1, At(args, argnum)),
                    args, expanded, depth, macros, errs, rehit)
    ELSE \* Normal expansion.  Argument is macro expanded first
         LET r == ExpandMacros(At(args, argnum), <<>>, depth + 1, macros) IN
         IF r.exc # NoExc
         THEN [rep |-> rep, errs |-> errs \o r.errs, exc |-> r.exc,
               rehit |-> rehit \/ r.rehit]
         ELSE ArgPatches(patch, k + 1, Splice(rep, i, i + 1, r.toks),
                         [args EXCEPT ![argnum + 1] = r.toks],
                         expanded \cup {argnum}, depth, macros,
                         errs \o r.errs, rehit \/ r.rehit)

MacroExpandArgs(macro, args, depth, macros) ==
  IF depth > MaxDepth THEN ExpResult(<<>>, <<>>, "RecursionError", FALSE)
  ELSE
    LET sp == StrPatches(macro.str_patch, 1, Copy(macro.value), args)
        cp == CommaPatch(macro, sp.rep, sp.args)
        r  == ArgPatches(macro.patch, 1, cp, sp.args, {}, depth, macros, <<>>, FALSE)
    IN  ExpResult(SelectSeq(r.rep, LAMBDA x : x # NoneTok), r.errs, r.exc, r.rehit)

\* How often the object at ex[k] is in ex
Occurrences(ex, k) ==
  IF ex[k].obj = 0 THEN 1 ELSE Cardinality({l \in 1..Len(ex) : ex[l].obj = ex[k].obj})

\* for e in ex: e.lineno = t.lineno; e.expanded_from.append(t.value).  An
\* object that is in ex several times gets t.value appended as often.
Stamp(ex, t) ==
  List([k \in 1..Len(ex) |->
     [ex[k] EXCEPT !.lineno = t.lineno,
                   !.expanded_from = @ \o [n \in 1..Occurrences(ex, k) |-> t.value]]])

\* Observer: the tokens of the replacement of t now come from t's macro too.
Chained(rep, t) ==
  List([k \in 1..Len(rep) |->
     [rep[k] EXCEPT !.chain = @ \cup t.chain \cup {t.value}]])

\* The arguments as macro_expand_args gets them.
FixArgs(m, args, tokens, j, ca) ==
  LET n == Len(m.arglist) IN
  IF m.variadic
  THEN IF Len(args) = n - 1
       THEN Append(args, <<>>)
       ELSE Append(SubSeq(args, 1, n - 1),
                   Slice(tokens, j + At(ca.positions, n - 1), j + ca.tokcount - 1))
  ELSE IF Len(args) < n THEN args \o [k \in 1..(n - Len(args)) |-> <<>>]
  ELSE args

ExpandLoop(tokens, i, expanding_from, depth, macros, errs, rehit) ==
  IF i >= Len(tokens) THEN ExpResult(tokens, errs, NoExc, rehit)
  ELSE
    LET t == At(tokens, i) IN
    IF /\ t.type = t_ID
       /\ t.value \in DOMAIN macros
       /\ ~InSeq(t.value, t.expanded_from)
       /\ ~InSeq(t.value, expanding_from)
    THEN \* Yes, we found a macro match
      LET m == macros[t.value] IN
      IF m.arglist = NoArglist
      THEN \* A simple macro
        LET ex == ExpandMacros(Chained(Copy(m.value), t), Append(expanding_from, t.value),
                               depth + 1, macros)
            hit == rehit \/ ex.rehit \/ t.value \in t.chain
        IN
        IF ex.exc # NoExc THEN ExpResult(tokens, errs \o ex.errs, ex.exc, hit)
        ELSE ExpandLoop(Splice(tokens, i, i + 1, Stamp(ex.toks, t)), i,
                        expanding_from, depth, macros, errs \o ex.errs, hit)
      ELSE \* A macro with arguments
        LET j == LeadingWS(tokens, i + 1) IN
        IF j = Len(tokens) \/ At(tokens, j).value # "("
        THEN \* without an invocation list it is ignored
             ExpandLoop(tokens, j, expanding_from, depth, macros, errs, rehit)
        ELSE
          LET ca == CollectArgs(Slice(tokens, j, Len(tokens)), TRUE) IN
          IF ca.tokcount = 0
          THEN \* Unclosed parameter list, just bail out
               ExpResult(tokens, errs, NoExc, rehit)
          ELSE IF /\ ~m.variadic
                  /\ (ca.args # <<<<>>>> \/ Len(m.arglist) > 1)
                  /\ Len(ca.args) # Len(m.arglist)
          THEN \* self.error(t.source, ...) needs the token's source attribute
               IF t.source = Absent
               THEN ExpResult(tokens, errs, "AttributeError", rehit)
               ELSE ExpandLoop(tokens, j + ca.tokcount, expanding_from, depth, macros,
                               Append(errs, "Macro requires N arguments"), rehit)
          ELSE IF m.variadic /\ Len(ca.args) < Len(m.arglist) - 1
          THEN IF t.source = Absent
               THEN ExpResult(tokens, errs, "AttributeError", rehit)
               ELSE ExpandLoop(tokens, j + ca.tokcount, expanding_from, depth, macros,
                               Append(errs, "Macro must have at least N arguments"), rehit)
          ELSE
            LET rep == MacroExpandArgs(m, FixArgs(m, ca.args, tokens, j, ca),
                                       depth + 1, macros)
            IN
            IF rep.exc # NoExc
            THEN ExpResult(tokens, errs \o rep.errs, rep.exc, rehit \/ rep.rehit)
            ELSE
              LET ex == ExpandMacros(Chained(rep.toks, t),
                                     Append(expanding_from, t.value), depth + 1, macros)
                  hit == rehit \/ rep.rehit \/ ex.rehit \/ t.value \in t.chain
                  es  == errs \o rep.errs \o ex.errs
              IN
              IF ex.exc # NoExc THEN ExpResult(tokens, es, ex.exc, hit)
              ELSE ExpandLoop(Splice(tokens, i, j + ca.tokcount, Stamp(ex.toks, t)), i,
                              expanding_from, depth, macros, es, hit)
    ELSE IF t.type = t_ID /\ t.value = "__LINE__"
    THEN ExpandLoop([tokens EXCEPT ![i + 1].type = t_INTEGER,
                                   ![i + 1].value = ToString(t.lineno)],
                    i + 1, expanding_from, depth, macros, errs, rehit)
    ELSE ExpandLoop(tokens, i + 1, expanding_from, depth, macros, errs, rehit)

ExpandMacros(tokens, expanding_from, depth, macros) ==
  IF depth > MaxDepth THEN ExpResult(tokens, <<>>, "RecursionError", FALSE)
  ELSE ExpandLoop(tokens, 0, expanding_from, depth, macros, <<>>, FALSE)

(***************************************************************************)
(* evalexpr().  Returns a record: result (the value as a truth value),     *)
(* errs and exc as above.                                                  *)
(***************************************************************************)
EvalResult(result, errs, exc) == [result |-> result, errs |-> errs, exc |-> exc]

\* The inner while of the search for defined: from j, returns where j stops,
\* the result and the messages.
RECURSIVE DefinedScan(_, _, _, _, _, _, _)
DefinedScan(tokens, i, j, needparen, result, errs, macros) ==
  IF j >= Len(tokens) THEN [j |-> j, result |-> result, errs |-> errs, exc |-> NoExc]
  ELSE
    LET tj == At(tokens, j) IN
    IF tj.type \in t_WS
    THEN DefinedScan(tokens, i, j + 1, needparen, result, errs, macros)
    ELSE IF tj.type = t_ID
    THEN LET res == IF tj.value \in DOMAIN macros THEN "1L" ELSE "0L" IN
         IF ~needparen THEN [j |-> j, result |-> res, errs |-> errs, exc |-> NoExc]
         ELSE DefinedScan(tokens, i, j + 1, needparen, res, errs, macros)
    ELSE IF tj.value = "("
    THEN DefinedScan(tokens, i, j + 1, TRUE, result, errs, macros)
    ELSE IF tj.value = ")"
    THEN [j |-> j, result |-> result, errs |-> errs, exc |-> NoExc]
    ELSE IF At(tokens, i).source = Absent
    THEN [j |-> j, result |-> result, errs |-> errs, exc |-> "AttributeError"]
    ELSE DefinedScan(tokens, i, j + 1, needparen, result,
                     Append(errs, "Malformed defined()"), macros)

\* The outer while: every defined ... becomes an integer token.
RECURSIVE DefinedLoop(_, _, _, _)
DefinedLoop(tokens, i, errs, macros) ==
  IF i >= Len(tokens) THEN [toks |-> tokens, errs |-> errs, exc |-> NoExc]
  ELSE IF At(tokens, i).type = t_ID /\ At(tokens, i).value = "defined"
  THEN LET s == DefinedScan(tokens, i, i + 1, FALSE, "0L", errs, macros)
           t == [tokens EXCEPT ![i + 1].type = t_INTEGER, ![i + 1].value = s.result]
       IN  IF s.exc # NoExc THEN [toks |-> tokens, errs |-> s.errs, exc |-> s.exc]
           ELSE DefinedLoop(Splice(t, i + 1, s.j + 1, <<>>), i + 1, s.errs, macros)
  ELSE DefinedLoop(tokens, i + 1, errs, macros)

\* Stripping the trailing suffix characters of an integer spelling, on the
\* spellings of the model's alphabets.
SuffixTable == [v \in {"0L", "1L"} |-> IF v = "0L" THEN "0" ELSE "1"]
StripSuffix(v) == IF v \in DOMAIN SuffixTable THEN SuffixTable[v] ELSE v

\* Identifiers left after expansion become 0L, integers lose their suffix.
IntegerTokens(tokens) ==
  List([k \in 1..Len(tokens) |->
     IF tokens[k].type = t_ID
     THEN [tokens[k] EXCEPT !.type = t_INTEGER, !.value = "0L"]
     ELSE IF tokens[k].type = t_INTEGER
     THEN [tokens[k] EXCEPT !.value = StripSuffix(@)]
     ELSE tokens[k]])

(***************************************************************************)
(* eval(expr) of the interpreter (Python 3) on the joined spellings, after *)
(* && became " and ", || " or " and ! " not ".  A value is a number        *)
(* <<num, den>>: integers and bools have den = 1, the float that / gives   *)
(* is num/den.  The expressions of the model's alphabets are one integer,  *)
(* a unary operator on one, one in parentheses, a binary operator on two,  *)
(* and a ?: on three, the characters of an operator next to each other;    *)
(* a decimal spelling evaluates to its value, and the empty expression, a  *)
(* spelling with a suffix (0L), "not =" (from !=) and ?: are syntax        *)
(* errors.  ok is FALSE when eval raises.                                  *)
(***************************************************************************)
DecimalValue == [v \in {"0", "1", "2"} |-> IF v = "0" THEN 0 ELSE IF v = "1" THEN 1 ELSE 2]

PyInt(n) == [ok |-> TRUE, value |-> <<n, 1>>]
PyBool(b) == PyInt(IF b THEN 1 ELSE 0)
PyRaise == [ok |-> FALSE, value |-> <<0, 1>>]

\* bool(result)
Truth(value) == value[1] # 0

\* a & b, a | b, a ^ b on integers >= 0, bit by bit
RECURSIVE BitOp(_, _, _)
BitOp(op, a, b) ==
  IF a = 0 /\ b = 0 THEN 0
  ELSE LET x == a % 2
           y == b % 2
           z == IF op = "&" THEN (IF x = 1 /\ y = 1 THEN 1 ELSE 0)
                ELSE IF op = "|" THEN (IF x = 1 \/ y = 1 THEN 1 ELSE 0)
                ELSE (IF x # y THEN 1 ELSE 0)
       IN  z + 2 * BitOp(op, a \div 2, b \div 2)

RECURSIVE Pow2(_)
Pow2(n) == IF n = 0 THEN 1 ELSE 2 * Pow2(n - 1)

PyUnary(op, a) ==
  IF op = "-" THEN PyInt(0 - a)
  ELSE IF op = "+" THEN PyInt(a)
  ELSE IF op = "~" THEN PyInt(0 - a - 1)
  ELSE IF op = "!" THEN PyBool(a = 0)                      \* not a
  ELSE PyRaise

PyBinary(a, op, b) ==
  IF op = "+" THEN PyInt(a + b)
  ELSE IF op = "-" THEN PyInt(a - b)
  ELSE IF op = "*" THEN PyInt(a * b)
  ELSE IF op = "/" THEN (IF b = 0 THEN PyRaise ELSE [ok |-> TRUE, value |-> <<a, b>>])
  ELSE IF op = "%" THEN (IF b = 0 THEN PyRaise ELSE PyInt(a % b))
  ELSE IF op = "<" THEN PyBool(a < b)
  ELSE IF op = ">" THEN PyBool(a > b)
  ELSE IF op = "<=" THEN PyBool(a <= b)
  ELSE IF op = ">=" THEN PyBool(a >= b)
  ELSE IF op = "==" THEN PyBool(a = b)
  ELSE IF op \in {"&", "|", "^"} THEN PyInt(BitOp(op, a, b))
  ELSE IF op = "<<" THEN PyInt(a * Pow2(b))
  ELSE IF op = ">>" THEN PyInt(a \div Pow2(b))
  ELSE IF op = "&&" THEN PyInt(IF a = 0 THEN a ELSE b)     \* a and b
  ELSE IF op = "||" THEN PyInt(IF a # 0 THEN a ELSE b)     \* a or b
  ELSE PyRaise                                             \* "!=" is "not ="

PyEval(tokens) ==
  LET e == SelectSeq(tokens, LAMBDA x : x.type \notin t_WS)
      lit(k) == e[k].type = t_INTEGER /\ e[k].value \in DOMAIN DecimalValue
      n(k) == DecimalValue[e[k].value]
  IN
  IF Len(e) = 1 /\ lit(1) THEN PyInt(n(1))
  ELSE IF Len(e) = 2 /\ lit(2) THEN PyUnary(e[1].value, n(2))
  ELSE IF Len(e) = 3 /\ e[1].value = "(" /\ lit(2) /\ e[3].value = ")" THEN PyInt(n(2))
  ELSE IF Len(e) = 3 /\ lit(1) /\ lit(3) /\ e[2].type \notin {t_INTEGER, t_STRING}
  THEN PyBinary(n(1), e[2].value, n(3))
  ELSE IF Len(e) = 4 /\ lit(1) /\ lit(4)
  THEN PyBinary(n(1), e[2].value \o e[3].value, n(4))
  ELSE PyRaise

\* After expand_macros: the integer tokens, eval, and the error of a failure.
EvalExpanded(ex, errs) ==
  IF ex.exc # NoExc THEN EvalResult(FALSE, errs \o ex.errs, ex.exc)
  ELSE
    LET ts == IntegerTokens(ex.toks)
        v  == PyEval(ts)
        es == errs \o ex.errs
    IN
    IF v.ok THEN EvalResult(Truth(v.value), es, NoExc)
    ELSE IF ts = <<>> THEN EvalResult(FALSE, es, "IndexError")
    ELSE IF ts[1].source = Absent THEN EvalResult(FALSE, es, "AttributeError")
    ELSE EvalResult(FALSE, Append(es, "Couldn't evaluate expression"), NoExc)

\* After the search for defined: tokens = self.expand_macros(tokens)
EvalDefined(d, macros) ==
  IF d.exc # NoExc THEN EvalResult(FALSE, d.errs, d.exc)
  ELSE EvalExpanded(ExpandMacros(d.toks, <<>>, 1, macros), d.errs)

EvalExpr(tokens, macros) == EvalDefined(DefinedLoop(tokens, 0, <<>>, macros), macros)

(***************************************************************************)
(* The files include() can open, and the path functions it uses.           *)
(***************************************************************************)
\* The files that exist, by the name open() gets.
Files == {"inc/a.h", "inc/b.h"}

\* os.path.join(p, filename)
PathJoin(p, filename) == IF p = "" THEN filename ELSE p \o "/" \o filename

\* os.path.dirname(), on the names of the model
DirnameTable ==
  [f \in {"inc/a.h", "inc/b.h", "src/main.c", "main.c", "a.h", "b.h"} |->
     IF f \in {"inc/a.h", "inc/b.h"} THEN "inc" ELSE IF f = "src/main.c" THEN "src" ELSE ""]
Dirname(f) == DirnameTable[f]

\* tokens[0].value[1:-1], on the string spellings of the model
UnquoteTable ==
  [v \in {"\"inc/a.h\"", "\"b.h\""} |-> IF v = "\"b.h\"" THEN "b.h" ELSE "inc/a.h"]
Unquote(v) == UnquoteTable[v]

\* self.path: add_path() is never called
path == <<>>

\* The for loop over the search path: the first name that opens, or None.
RECURSIVE FirstOpen(_, _)
FirstOpen(plist, filename) ==
  IF plist = <<>> THEN None
  ELSE IF PathJoin(Head(plist), filename) \in Files THEN PathJoin(Head(plist), filename)
  ELSE FirstOpen(Tail(plist), filename)

\* "".join([x.value for x in tokens])
RECURSIVE JoinRaw(_)
JoinRaw(tokens) == IF tokens = <<>> THEN "" ELSE Head(tokens).value \o JoinRaw(Tail(tokens))

\* Index of the first '>' from i, or len(tokens)
RECURSIVE FindGreater(_, _)
FindGreater(tokens, i) ==
  IF i >= Len(tokens) THEN i
  ELSE IF At(tokens, i).value = ">" THEN i ELSE FindGreater(tokens, i + 1)

\* include() up to the point where a file is open: kind is "return" (the
\* generator ends without a file), "raise", or "open" with the filename and
\* the name that opened.
IncResult(kind, errs, exc, filename, iname) ==
  [kind |-> kind, errs |-> errs, exc |-> exc, filename |-> filename, iname |-> iname]

IncludeSearch(tokens, filename, plist, errs) ==
  LET iname == FirstOpen(plist, filename) IN
  IF iname # None THEN IncResult("open", errs, NoExc, filename, iname)
  ELSE IF tokens[1].source = Absent
  THEN IncResult("raise", errs, "AttributeError", filename, None)
  ELSE IncResult("return", Append(errs, "Couldn't find file"), NoExc, filename, None)

IncludeNamed(tokens, errs, temp_path) ==
  IF tokens = <<>> THEN IncResult("raise", errs, "IndexError", None, None)
  ELSE IF tokens[1].value = "<"
  THEN LET i == FindGreater(tokens, 1) IN
       IF i >= Len(tokens)
       THEN IF tokens[1].source = Absent
            THEN IncResult("raise", errs, "AttributeError", None, None)
            ELSE IncResult("return", Append(errs, "Malformed #include <...>"),
                           NoExc, None, None)
       ELSE IncludeSearch(tokens, JoinRaw(Slice(tokens, 1, i)),
                          path \o <<"">> \o temp_path, errs)
  ELSE IF tokens[1].type = t_STRING
  THEN IncludeSearch(tokens, Unquote(tokens[1].value),
                     temp_path \o <<"">> \o path, errs)
  ELSE IF tokens[1].source = Absent
  THEN IncResult("raise", errs, "AttributeError", None, None)
  ELSE IncResult("return", Append(errs, "Malformed #include statement"), NoExc, None, None)

Include(tokens, macros, temp_path) ==
  IF tokens = <<>> THEN IncResult("return", <<>>, NoExc, None, None)
  ELSE IF tokens[1].value # "<" /\ tokens[1].type # t_STRING
  THEN LET ex == ExpandMacros(tokens, <<>>, 1, macros) IN
       IF ex.exc # NoExc THEN IncResult("raise", ex.errs, ex.exc, None, None)
       ELSE IncludeNamed(Tokenstrip(ex.toks), ex.errs, temp_path)
  ELSE IncludeNamed(tokens, <<>>, temp_path)

(***************************************************************************)
(* parsegen().  One activation of the generator is a frame:                *)
(*   tag        the source argument, which group_lines puts on the tokens  *)
(*   source     the local source ("" for no source)                        *)
(*   started    the body has begun (a generator runs from its first next)  *)
(*   pc         where the activation stands: "line" (at the for over the   *)
(*              lines), "define", "undef", "include" (the chunk has been   *)
(*              flushed, the directive has not acted yet), "included"      *)
(*              (inside the for over self.include), "return" (the last     *)
(*              chunk has been flushed)                                    *)
(*   eof        group_lines has no further line                            *)
(*   lineno     the line number of the next line                           *)
(*   args       the arguments of the directive being handled               *)
(*   chunk, enable, iftrigger, ifstack, oldfile   the locals of that name  *)
(*   dname      the local of the include() that runs this activation       *)
(*   taken      observer, one entry per entry of ifstack: how many         *)
(*              branches of that conditional group have been enabled       *)
(***************************************************************************)
Frame(tag, dname) ==
  [tag |-> tag, source |-> IF tag = None THEN "" ELSE tag,
   started |-> FALSE, pc |-> "line", eof |-> FALSE, lineno |-> 1, args |-> <<>>,
   chunk |-> <<>>, enable |-> TRUE, iftrigger |-> FALSE, ifstack |-> <<>>,
   oldfile |-> None, dname |-> dname, taken |-> <<>>]

\* self.define("__FILE__ \"%s\"" % source), tokenized
FileDef(source) == <<ID("__FILE__"), SP, STR("\"" \o source \o "\"")>>

\* group_lines(): tok.source = source, and the lexer's line number
GroupLine(line, tag, lineno) ==
  List([k \in 1..Len(line) |-> [line[k] EXCEPT !.source = tag, !.lineno = lineno]])

\* for i,tok in enumerate(x): if tok.type not in self.t_WS: break
RECURSIVE FirstNonWS(_, _)
FirstNonWS(x, i) ==
  IF i = Len(x) - 1 \/ At(x, i).type \notin t_WS THEN i ELSE FirstNonWS(x, i + 1)

\* tok.value.count("\n"), on the spellings of the model
NewlineCount(v) == IF v = "\n" THEN 1 ELSE IF v = "\n\n\n" THEN 3 ELSE 0

\* '\n' in tok.value, on the whitespace spellings of the model
HasNewline(v) == v \in {"\n", "\n\n\n"}

\* What handling one line comes to: the frame afterwards, the messages, the
\* exception, and whether the chunk is to be flushed before the directive acts.
DirResult(frame, errs, exc, flush) ==
  [frame |-> frame, errs |-> errs, exc |-> exc, flush |-> flush]

\* #define, #include, #undef acting on an unflushed chunk
ActUnflushed(f, name, args) ==
  IF f.enable THEN DirResult([f EXCEPT !.pc = name, !.args = args], <<>>, NoExc, FALSE)
  ELSE DirResult(f, <<>>, NoExc, FALSE)

\* #define, #include, #undef acting whether or not the group is enabled
ActAlways(f, name, args) ==
  DirResult([f EXCEPT !.pc = name, !.args = args], <<>>, NoExc, TRUE)

\* #define, #include, #undef: if enable, flush the chunk, then act
FlushThenAct(f, name, args) ==
  IF f.enable THEN DirResult([f EXCEPT !.pc = name, !.args = args], <<>>, NoExc, TRUE)
  ELSE DirResult(f, <<>>, NoExc, FALSE)

\* ifstack.append((enable,iftrigger))
PushIf(f) ==
  [f EXCEPT !.ifstack = Append(@, <<f.enable, f.iftrigger>>), !.taken = Append(@, 0)]

\* The branch of an enabled #if, #ifdef, #ifndef
OpenBranch(f, cond) ==
  IF cond THEN [f EXCEPT !.iftrigger = TRUE, !.taken[Len(f.taken)] = 1]
  ELSE [f EXCEPT !.enable = FALSE, !.iftrigger = FALSE]

\* enable = True; iftrigger = True
TakeBranch(f) ==
  [f EXCEPT !.enable = TRUE, !.iftrigger = TRUE, !.taken[Len(f.taken)] = @ + 1]

\* #elif and #else with the outer test dropped
OuterIgnored(ifstack) == TRUE

\* ifstack[-1][0]
OuterEnable(ifstack) == ifstack[Len(ifstack)][1]

\* #elif and #else with the trigger test dropped
TriggerIgnored(iftrigger) == TRUE

\* not iftrigger
NotTriggered(iftrigger) == ~iftrigger

\* self.error(dirtokens[0].source, dirtokens[0].lineno, msg)
Misplaced(f, dirtokens, msg) ==
  IF dirtokens[1].source = Absent THEN DirResult(f, <<>>, "AttributeError", FALSE)
  ELSE DirResult(f, <<msg>>, NoExc, FALSE)

\* #if with the result r of evalexpr: the branch is entered or skipped
IfResult(g, r) ==
  IF r.exc # NoExc THEN DirResult(g, r.errs, r.exc, FALSE)
  ELSE DirResult(OpenBranch(g, r.result), r.errs, NoExc, FALSE)

\* #elif with the result r of evalexpr: if result: enable, iftrigger = True
ElifResult(f, r) ==
  IF r.exc # NoExc THEN DirResult(f, r.errs, r.exc, FALSE)
  ELSE IF r.result THEN DirResult(TakeBranch(f), r.errs, NoExc, FALSE)
  ELSE DirResult(f, r.errs, NoExc, FALSE)

Directive(f, name, args, dirtokens, macros) ==
  IF name \in {"define", "include", "undef"} THEN FlushThenAct(f, name, args)
  ELSE IF name \in {"ifdef", "ifndef"}
  THEN LET g == PushIf(f) IN
       IF ~f.enable THEN DirResult(g, <<>>, NoExc, FALSE)
       ELSE IF args = <<>> THEN DirResult(g, <<>>, "IndexError", FALSE)
       ELSE DirResult(OpenBranch(g, (args[1].value \in DOMAIN macros) = (name = "ifdef")),
                      <<>>, NoExc, FALSE)
  ELSE IF name = "if"
  THEN IF ~f.enable THEN DirResult(PushIf(f), <<>>, NoExc, FALSE)
       ELSE IfResult(PushIf(f), EvalExpr(args, macros))
  ELSE IF name = "elif"
  THEN IF f.ifstack # <<>>
       THEN IF OuterEnable(f.ifstack)
            THEN IF f.enable THEN DirResult([f EXCEPT !.enable = FALSE], <<>>, NoExc, FALSE)
                 ELSE IF NotTriggered(f.iftrigger)
                 THEN ElifResult(f, EvalExpr(args, macros))
                 ELSE DirResult(f, <<>>, NoExc, FALSE)
            ELSE DirResult(f, <<>>, NoExc, FALSE)
       ELSE Misplaced(f, dirtokens, "Misplaced #elif")
  ELSE IF name = "else"
  THEN IF f.ifstack # <<>>
       THEN IF OuterEnable(f.ifstack)
            THEN IF f.enable THEN DirResult([f EXCEPT !.enable = FALSE], <<>>, NoExc, FALSE)
                 ELSE IF NotTriggered(f.iftrigger)
                 THEN DirResult(TakeBranch(f), <<>>, NoExc, FALSE)
                 ELSE DirResult(f, <<>>, NoExc, FALSE)
            ELSE DirResult(f, <<>>, NoExc, FALSE)
       ELSE Misplaced(f, dirtokens, "Misplaced #else")
  ELSE IF name = "endif"
  THEN IF f.ifstack # <<>>
       THEN LET top == f.ifstack[Len(f.ifstack)] IN
            DirResult([f EXCEPT !.enable = top[1], !.iftrigger = top[2],
                                !.ifstack = SubSeq(@, 1, Len(@) - 1),
                                !.taken = SubSeq(@, 1, Len(@) - 1)],
                      <<>>, NoExc, FALSE)
       ELSE Misplaced(f, dirtokens, "Misplaced #endif")
  ELSE \* Unknown preprocessor directive
       DirResult(f, <<>>, NoExc, FALSE)

\* The body of the for over the lines, for the line x
LineStep(f, x, macros) ==
  LET i   == FirstNonWS(x, 0)
      tok == At(x, i)
  IN
  IF tok.value = "#"
  THEN \* Preprocessor directive
    LET nls       == SelectSeq(x, LAMBDA t : t.type \in t_WS /\ HasNewline(t.value))
        dirtokens == Tokenstrip(Slice(x, i + 1, Len(x)))
        name      == IF dirtokens # <<>> THEN dirtokens[1].value ELSE ""
        args      == IF dirtokens # <<>> THEN Tokenstrip(Tail(dirtokens)) ELSE <<>>
    IN  Directive([f EXCEPT !.chunk = @ \o nls], name, args, dirtokens, macros)
  ELSE \* Normal text
    IF f.enable THEN DirResult([f EXCEPT !.chunk = @ \o x], <<>>, NoExc, FALSE)
    ELSE DirResult(f, <<>>, NoExc, FALSE)

(***************************************************************************)
(* The state of one Preprocessor.                                          *)
(*   macros       self.macros: macro name -> Macro                         *)
(*   return_code  self.return_code                                         *)
(*   stdout       the lines error() has printed                            *)
(*   raised       the exception that left the last call (NoExc: none)      *)
(*   parser       self.parser: None or the generator parse() made          *)
(*   frames       the activations of parsegen inside that generator, the   *)
(*                outermost first; empty once the generator has ended      *)
(*   temp_path    self.temp_path                                           *)
(*   self_source  self.source                                              *)
(*   out          the tokens the generator has yielded                     *)
(*   atYield      the generator is suspended at a yield                    *)
(*   nread        how many lines group_lines has handed out                *)
(*   wpos         how many of the yielded tokens write() has taken         *)
(*   lastsource, blankacc, blanklines   the locals of write()              *)
(*   oh           what write() has written, one entry per oh.write()       *)
(*   xtoks        the token list the last expand_macros call returned      *)
(* Observers:                                                              *)
(*   xrehit       the rehit of the last expand_macros call                 *)
(*   textlog      every token put on a chunk, with the macro table at the  *)
(*                time its line was read                                   *)
(*   flushlog     every token of a chunk handed to expand_macros, with the *)
(*                macro table of that call                                 *)
(*   parse_path   temp_path as parse() left it                             *)
(*   origin       for every yielded token, the source whose chunk it was   *)
(*                expanded from                                            *)
(*   wlog         for every non-blank line write() has written: whether a  *)
(*                marker came before it, the blank lines accumulated and   *)
(*                written before it, the origin of its first token and of  *)
(*                the first token of the non-blank line before it          *)
(***************************************************************************)
VARIABLES macros, return_code, stdout, raised, parser, frames, temp_path,
          self_source, out, atYield, nread, xtoks, xrehit, textlog, flushlog,
          parse_path, origin, wpos, lastsource, blankacc, blanklines, oh, wlog

coreVars  == <<macros, return_code, stdout, raised>>
parseVars == <<parser, frames, temp_path, self_source, out, atYield, nread>>
logVars   == <<textlog, flushlog, parse_path>>
expVars   == <<xtoks, xrehit>>
writeVars == <<wpos, lastsource, blankacc, blanklines, oh, wlog>>
vars      == <<coreVars, parseVars, logVars, expVars, origin, writeVars>>

\* error() printing without counting
ErrorUncounted(errs) ==
  /\ stdout' = stdout \o errs
  /\ return_code' = return_code

\* error(): print the message, count it.  Applied to the messages of one call.
Error(errs) ==
  /\ stdout' = stdout \o errs
  /\ return_code' = return_code + Len(errs)

\* __init__(): an empty table, then __DATE__ and __TIME__ are defined.
InitMacros ==
  LET e  == [n \in {} |-> NoneTok]
      m1 == Define(e, <<ID("__DATE__"), SP, STR("\"Nov 04 2026\"")>>).macros
  IN  Define(m1, <<ID("__TIME__"), SP, STR("\"12:00:00\"")>>).macros


(***************************************************************************)
(* The expander driven through the public methods define(), undef() and    *)
(* expand_macros().                                                        *)
(***************************************************************************)
LP == PUNCT("(")
RP == PUNCT(")")
CM == PUNCT(",")

\* Definitions as define() gets them from a string.
ExpDefs ==
  { <<ID("X"), SP, ID("X"), PUNCT("+"), INT("1")>>,            \* X X+1
    <<ID("A"), SP, ID("B")>>,                                  \* A B
    <<ID("B"), SP, ID("A")>>,                                  \* B A
    <<ID("F"), LP, ID("x"), RP, SP, ID("x")>>,                 \* F(x) x
    <<ID("G"), LP, ID("x"), RP, SP, ID("G"), LP, ID("x"), RP>>,\* G(x) G(x)
    <<ID("M"), SP, ID("F"), LP, ID("M"), RP>> }                \* M F(M)

\* Tokens as group_lines() makes them: with a source.
SrcTok(t) == [t EXCEPT !.source = "main.c"]
SrcLine(ts) == List([k \in 1..Len(ts) |-> SrcTok(ts[k])])

\* Token lists handed to expand_macros().
ExpInputs ==
  { SrcLine(<<ID("X")>>),
    SrcLine(<<ID("A"), SP, ID("B")>>),
    SrcLine(<<ID("M")>>),
    SrcLine(<<ID("G"), LP, INT("1"), RP>>),
    SrcLine(<<ID("F"), LP, ID("F"), LP, ID("A"), RP, RP>>),
    SrcLine(<<ID("F"), LP, ID("X"), CM, INT("1"), RP>>),
    SrcLine(<<ID("F"), SP, LP, ID("M")>>) }

\* The caller has control: no generator, or one that has not begun, has
\* ended, or is suspended at a yield.
Suspended ==
  \/ parser = None
  \/ frames = <<>>
  \/ Len(frames) = 1 /\ ~frames[1].started
  \/ atYield

ApiDefine(d) ==
  \E r \in {Define(macros, d)} :
  /\ return_code < MaxDiag
  /\ Suspended
  /\ macros' = r.macros
  /\ Error(r.errs)
  /\ raised' = r.exc
  /\ UNCHANGED <<parseVars, logVars, expVars, origin, writeVars>>

ApiUndef(n) ==
  \E r \in {Undef(macros, <<ID(n)>>)} :
  /\ return_code < MaxDiag
  /\ Suspended
  /\ n \in DOMAIN macros
  /\ macros' = r.macros
  /\ raised' = r.exc
  /\ UNCHANGED <<return_code, stdout, parseVars, logVars, expVars, origin, writeVars>>

ApiExpand(ts) ==
  \E r \in {ExpandMacros(ts, <<>>, 1, macros)} :
  /\ return_code < MaxDiag
  /\ Suspended
  /\ xtoks' = r.toks
  /\ xrehit' = r.rehit
  /\ Error(r.errs)
  /\ raised' = r.exc
  /\ UNCHANGED <<macros, parseVars, logVars, origin, writeVars>>

NextExpand ==
  \/ \E d \in ExpDefs : ApiDefine(d)
  \/ \E n \in {"X", "A", "F"} : ApiUndef(n)
  \/ \E ts \in ExpInputs : ApiExpand(ts)

Init ==
  /\ macros = InitMacros
  /\ return_code = 0
  /\ stdout = <<>>
  /\ raised = NoExc
  /\ parser = None
  /\ frames = <<>>
  /\ temp_path = <<>>
  /\ self_source = Absent
  /\ out = <<>>
  /\ atYield = FALSE
  /\ nread = 0
  /\ xtoks = <<>>
  /\ xrehit = FALSE
  /\ textlog = <<>>
  /\ flushlog = <<>>
  /\ parse_path = <<>>
  /\ origin = <<>>
  /\ wpos = 0
  /\ lastsource = None
  /\ blankacc = <<>>
  /\ blanklines = 0
  /\ oh = <<>>
  /\ wlog = <<>>

SpecExpand == Init /\ [][NextExpand]_vars

(***************************************************************************)
(* The expander on numbered token objects: the tokens of every definition  *)
(* and of every list handed to expand_macros() are objects the caller      *)
(* holds, each with its own number.  No replacement list names a macro and *)
(* no argument does, so every object that is in a list twice is numbered.  *)
(***************************************************************************)
Objects(ts, base) == List([k \in 1..Len(ts) |-> [ts[k] EXCEPT !.obj = base + k]])

CopyDefs ==
  { Objects(<<ID("D"), LP, ID("x"), RP, SP, ID("x"), SP, ID("x")>>, 10),     \* D(x) x x
    Objects(<<ID("S"), LP, ID("x"), RP, SP, POUND, ID("x"), SP, ID("x")>>, 20), \* S(x) #x x
    Objects(<<ID("O"), SP, INT("1"), SP, INT("2")>>, 30),                   \* O 1 2
    Objects(<<ID("F"), LP, ID("x"), RP, SP, ID("x")>>, 40) }                \* F(x) x

CopyInputs ==
  { Objects(SrcLine(<<ID("D"), LP, ID("a"), RP>>), 0),
    Objects(SrcLine(<<ID("S"), LP, ID("a"), RP>>), 0),
    Objects(SrcLine(<<ID("O")>>), 0),
    Objects(SrcLine(<<ID("F"), LP, ID("a"), SP, ID("b"), RP>>), 0),
    Objects(SrcLine(<<ID("b"), SP, ID("O")>>), 0) }

NextCopy ==
  \/ \E d \in CopyDefs : ApiDefine(d)
  \/ \E n \in {"D", "S", "O", "F"} : ApiUndef(n)
  \/ \E ts \in CopyInputs : ApiExpand(ts)

SpecCopy == Init /\ [][NextCopy]_vars

(***************************************************************************)
(* The generator driven through parse() and token().  A call of token()    *)
(* runs the generator to its next yield; the steps below are the pieces of *)
(* that run, and the caller's methods are enabled only where the generator *)
(* is suspended.  A value that a step uses several times is named by \E  *)
(* over the set that holds just that value.                                *)
(***************************************************************************)
MaxLines == 3
MaxTempPath == 2

\* The innermost activation replaced by f, with enable, iftrigger and ifstack
\* kept in one place for all activations instead of in locals
SetShared(f) ==
  List([k \in 1..Len(frames) |->
     IF k = Len(frames) THEN f
     ELSE [frames[k] EXCEPT !.enable = f.enable, !.iftrigger = f.iftrigger,
                            !.ifstack = f.ifstack]])

Top == frames[Len(frames)]
SetTop(f) == [frames EXCEPT ![Len(frames)] = f]

\* Observer: tokens with the macro table they meet
Log(tokens, table) == List([k \in 1..Len(tokens) |-> [tok |-> tokens[k], table |-> table]])

\* __FILE__ left as the included file set it
FileKept(table, oldfile) == table

\* self.macros['__FILE__'] = oldfile
RestoreFile(table, oldfile) == SetMacro(table, "__FILE__", oldfile)

\* An exception leaves the generator: every activation is gone, nothing of
\* them runs again.
Raise(exc, errs) ==
  /\ frames' = <<>>
  /\ raised' = exc
  /\ Error(errs)
  /\ atYield' = FALSE
  /\ UNCHANGED <<macros, parser, temp_path, self_source, out, origin, flushlog, parse_path, expVars, writeVars>>

\* parse(): a new generator; the directory of the source goes on temp_path.
Parse(src) ==
  /\ return_code < MaxDiag
  /\ Suspended
  /\ Len(temp_path) < MaxTempPath
  /\ parser' = "generator"
  /\ frames' = <<Frame(src, "")>>
  /\ temp_path' = IF src # None /\ Dirname(src) # "" THEN <<Dirname(src)>> \o temp_path
                  ELSE temp_path
  /\ parse_path' = temp_path'
  /\ out' = <<>>
  /\ origin' = <<>>
  /\ textlog' = <<>>
  /\ flushlog' = <<>>
  /\ atYield' = FALSE
  /\ raised' = NoExc
  /\ UNCHANGED <<macros, return_code, stdout, self_source, nread, expVars, writeVars>>

\* The head of parsegen: __FILE__ is defined, self.source is set.
ParsegenStart ==
  /\ parser # None /\ frames # <<>>
  /\ ~Top.started
  /\ \E r \in {Define(macros, FileDef(Top.source))} :
       /\ macros' = r.macros
       /\ Error(r.errs)
  /\ self_source' = Top.source
  /\ frames' = SetTop([Top EXCEPT !.started = TRUE])
  /\ atYield' = FALSE
  /\ raised' = NoExc
  /\ UNCHANGED <<parser, temp_path, out, origin, nread, logVars, expVars, writeVars>>

\* One pass of the for over the lines, up to the yields of the flush.  A line
\* without its newline is the last one of its input.  The number of lines
\* read is capped at limit.
ParsegenLine(line, limit) ==
  /\ parser # None /\ frames # <<>>
  /\ Top.started /\ Top.pc = "line" /\ ~Top.eof
  /\ nread < limit
  /\ nread' = nread + 1
  /\ \E f \in {Top} :
     \E r \in {LineStep(f, GroupLine(line, f.tag, f.lineno), macros)} :
     \E g \in {[r.frame EXCEPT !.lineno = @ + NewlineCount(line[Len(line)].value),
                               !.eof = (line[Len(line)].type \notin t_WS)]} :
     \E new \in {SubSeq(g.chunk, Len(f.chunk) + 1, Len(g.chunk))} :
     \E ex \in {IF r.flush /\ r.exc = NoExc THEN ExpandMacros(g.chunk, <<>>, 1, macros)
                ELSE ExpResult(<<>>, <<>>, NoExc, FALSE)} :
     /\ textlog' = textlog \o Log(new, macros)
     /\ IF r.exc # NoExc THEN Raise(r.exc, r.errs)
        ELSE IF ~r.flush
        THEN /\ frames' = SetTop(g)
             /\ Error(r.errs)
             /\ atYield' = FALSE
             /\ raised' = NoExc
             /\ UNCHANGED <<macros, parser, temp_path, self_source, out, origin, flushlog,
                            parse_path, expVars, writeVars>>
        ELSE IF ex.exc # NoExc THEN Raise(ex.exc, r.errs \o ex.errs)
        ELSE /\ frames' = SetTop([g EXCEPT !.chunk = <<>>])
             /\ out' = out \o ex.toks
             /\ origin' = origin \o [k \in 1..Len(ex.toks) |-> f.tag]
             /\ flushlog' = flushlog \o Log(g.chunk, macros)
             /\ Error(r.errs \o ex.errs)
             /\ atYield' = (ex.toks # <<>>)
             /\ raised' = NoExc
             /\ UNCHANGED <<macros, parser, temp_path, self_source, parse_path, expVars, writeVars>>

\* self.define(args), after the flush
ParsegenDefine ==
  /\ parser # None /\ frames # <<>>
  /\ Top.pc = "define"
  /\ \E r \in {Define(macros, Top.args)} :
     IF r.exc # NoExc THEN Raise(r.exc, r.errs)
     ELSE /\ macros' = r.macros
          /\ Error(r.errs)
          /\ frames' = SetTop([Top EXCEPT !.pc = "line", !.args = <<>>])
          /\ atYield' = FALSE
          /\ raised' = NoExc
          /\ UNCHANGED <<parser, temp_path, self_source, out, origin, flushlog, parse_path, expVars, writeVars>>
  /\ UNCHANGED <<nread, textlog>>

\* self.undef(args), after the flush
ParsegenUndef ==
  /\ parser # None /\ frames # <<>>
  /\ Top.pc = "undef"
  /\ \E r \in {Undef(macros, Top.args)} :
     IF r.exc # NoExc THEN Raise(r.exc, <<>>)
     ELSE /\ macros' = r.macros
          /\ frames' = SetTop([Top EXCEPT !.pc = "line", !.args = <<>>])
          /\ atYield' = FALSE
          /\ raised' = NoExc
          /\ UNCHANGED <<return_code, stdout, parser, temp_path, self_source, out, origin,
                         flushlog, parse_path, expVars, writeVars>>
  /\ UNCHANGED <<nread, textlog>>

\* oldfile = self.macros['__FILE__'] and include(args) up to the first line
\* of the file it opens; without a file, on to the lines after the directive.
ParsegenInclude ==
  /\ parser # None /\ frames # <<>>
  /\ Top.pc = "include"
  /\ IF "__FILE__" \notin DOMAIN macros THEN Raise("KeyError", <<>>)
     ELSE
       \E r \in {Include(Top.args, macros, temp_path)} :
       \E f \in {[Top EXCEPT !.oldfile = macros["__FILE__"], !.args = <<>>]} :
       IF r.kind = "raise" THEN Raise(r.exc, r.errs)
       ELSE IF r.kind = "return"
       THEN /\ macros' = RestoreFile(macros, f.oldfile)
            /\ self_source' = f.source
            /\ frames' = SetTop([f EXCEPT !.pc = "line"])
            /\ Error(r.errs)
            /\ atYield' = FALSE
            /\ raised' = NoExc
            /\ UNCHANGED <<parser, temp_path, out, origin, flushlog, parse_path, expVars, writeVars>>
       ELSE LET dname == Dirname(r.iname) IN
            /\ temp_path' = IF dname # "" THEN <<dname>> \o temp_path ELSE temp_path
            /\ frames' = Append(SetTop([f EXCEPT !.pc = "included"]),
                                Frame(r.filename, dname))
            /\ Error(r.errs)
            /\ atYield' = FALSE
            /\ raised' = NoExc
            /\ UNCHANGED <<macros, parser, self_source, out, origin, flushlog, parse_path, expVars, writeVars>>
  /\ UNCHANGED <<nread, textlog>>

\* The lines are exhausted: the last chunk is expanded and yielded.
ParsegenEnd ==
  /\ parser # None /\ frames # <<>>
  /\ Top.started /\ Top.pc = "line"
  /\ \E ex \in {ExpandMacros(Top.chunk, <<>>, 1, macros)} :
     IF ex.exc # NoExc THEN Raise(ex.exc, ex.errs)
     ELSE /\ frames' = SetTop([Top EXCEPT !.chunk = <<>>, !.pc = "return"])
          /\ out' = out \o ex.toks
          /\ origin' = origin \o [k \in 1..Len(ex.toks) |-> Top.tag]
          /\ flushlog' = flushlog \o Log(Top.chunk, macros)
          /\ Error(ex.errs)
          /\ atYield' = (ex.toks # <<>>)
          /\ raised' = NoExc
          /\ UNCHANGED <<macros, parser, temp_path, self_source, parse_path, expVars, writeVars>>
  /\ UNCHANGED <<nread, textlog>>

\* parsegen returns.  For an included file, include() takes its directory
\* off temp_path and the includer restores __FILE__ and self.source; for the
\* outermost activation token() gets StopIteration and drops the generator.
ParsegenReturn ==
  /\ parser # None /\ frames # <<>>
  /\ Top.pc = "return"
  /\ IF Len(frames) = 1
     THEN /\ frames' = <<>>
          /\ parser' = None
          /\ UNCHANGED <<macros, temp_path, self_source>>
     ELSE LET caller == frames[Len(frames) - 1] IN
          /\ temp_path' = IF Top.dname # "" THEN Tail(temp_path) ELSE temp_path
          /\ macros' = RestoreFile(macros, caller.oldfile)
          /\ self_source' = caller.source
          /\ frames' = Append(SubSeq(frames, 1, Len(frames) - 2),
                              [caller EXCEPT !.pc = "line"])
          /\ UNCHANGED parser
  /\ atYield' = FALSE
  /\ raised' = NoExc
  /\ UNCHANGED <<return_code, stdout, out, origin, nread, logVars, expVars, writeVars>>

\* The lines of the inputs and of the files
Directive1(name) == <<POUND, ID(name), NL>>
Directive2(name, arg) == <<POUND, ID(name), SP, arg, NL>>

ParseLines ==
  { <<ID("X"), NL>>,
    <<ID("X")>>,
    <<POUND, ID("define"), SP, ID("X"), SP, INT("1"), NL>>,
    Directive2("undef", ID("X")),
    Directive2("include", STR("\"inc/a.h\"")),
    Directive2("include", STR("\"b.h\"")),
    Directive1("ifdef") }

ParseSources == {None, "src/main.c"}

\* define("X 2"), and define() of the tokens X+ of a source line
ParseDefs == { <<ID("X"), SP, INT("2")>>, SrcLine(<<ID("X"), PUNCT("+")>>) }

NextParse ==
  \/ \E src \in ParseSources : Parse(src)
  \/ ParsegenStart
  \/ \E line \in ParseLines : ParsegenLine(line, MaxLines)
  \/ ParsegenDefine
  \/ ParsegenUndef
  \/ ParsegenInclude
  \/ ParsegenEnd
  \/ ParsegenReturn
  \/ \E d \in ParseDefs : ApiDefine(d)
  \/ ApiUndef("X")

Spec == Init /\ [][NextParse]_vars

(***************************************************************************)
(* The conditional directives alone: one source of text lines and          *)
(* #if/#ifdef/#ifndef/#elif/#else/#endif lines in any order.               *)
(***************************************************************************)
MaxCondLines == 5

CondLines ==
  { <<ID("X"), NL>>,
    Directive2("if", INT("0")),
    Directive2("if", INT("1")),
    Directive2("ifndef", ID("X")),
    Directive2("elif", INT("0")),
    Directive2("elif", INT("1")),
    Directive1("else"),
    Directive1("endif") }

NextCond ==
  \/ Parse("main.c")
  \/ ParsegenStart
  \/ \E line \in CondLines : ParsegenLine(line, MaxCondLines)
  \/ ParsegenEnd
  \/ ParsegenReturn

SpecCond == Init /\ [][NextCond]_vars

(***************************************************************************)
(* Conditional directives across #include: a source and the files it       *)
(* includes, all made of text, #include and conditional lines.             *)
(***************************************************************************)
MaxIncLines == 5

IncLines ==
  { <<ID("X"), NL>>,
    Directive2("include", STR("\"inc/a.h\"")),
    Directive2("if", INT("0")),
    Directive2("if", INT("1")),
    Directive1("else"),
    Directive1("endif") }

NextInc ==
  \/ Parse("main.c")
  \/ ParsegenStart
  \/ \E line \in IncLines : ParsegenLine(line, MaxIncLines)
  \/ ParsegenInclude
  \/ ParsegenEnd
  \/ ParsegenReturn

SpecInc == Init /\ [][NextInc]_vars

(***************************************************************************)
(* #define, #undef and #include inside and outside skipped groups.         *)
(***************************************************************************)
MaxSkipLines == 4

SkipDirectives ==
  { <<POUND, ID("define"), SP, ID("X"), SP, INT("1"), NL>>,
    Directive2("undef", ID("X")),
    Directive2("include", STR("\"inc/a.h\"")) }

SkipLines ==
  SkipDirectives \cup
  { <<ID("X"), NL>>, Directive2("if", INT("0")), Directive1("else"), Directive1("endif") }

NextSkip ==
  \/ Parse("main.c")
  \/ ParsegenStart
  \/ \E line \in SkipLines : ParsegenLine(line, MaxSkipLines)
  \/ ParsegenDefine
  \/ ParsegenUndef
  \/ ParsegenInclude
  \/ ParsegenEnd
  \/ ParsegenReturn

SpecSkip == Init /\ [][NextSkip]_vars

(***************************************************************************)
(* #define lines that define() accepts and that it reports.                *)
(***************************************************************************)
DOT == PUNCT(".")

MaxDefLines == 3

DefLines ==
  { <<POUND, ID("define"), SP, ID("F"), LP, ID("x"), RP, SP, ID("x"), NL>>,      \* F(x) x
    <<POUND, ID("define"), SP, ID("F"), LP, ID("x"), NL>>,                       \* F(x
    <<POUND, ID("define"), SP, ID("F"), LP, ID("x"), CM, DOT, DOT, DOT, CM,
      ID("y"), RP, SP, ID("x"), NL>>,                                            \* F(x,...,y) x
    <<POUND, ID("define"), SP, ID("F"), PUNCT("+"), NL>>,                        \* F+
    Directive2("undef", ID("F")) }

NextDefine ==
  \/ Parse("main.c")
  \/ ParsegenStart
  \/ \E line \in DefLines : ParsegenLine(line, MaxDefLines)
  \/ ParsegenDefine
  \/ ParsegenUndef
  \/ ParsegenEnd
  \/ ParsegenReturn

SpecDefine == Init /\ [][NextDefine]_vars

(***************************************************************************)
(* Invocations of function-like macros with and without whitespace around  *)
(* the arguments.                                                          *)
(***************************************************************************)
ArgDefs ==
  { <<ID("F"), LP, ID("x"), RP, SP, ID("x")>>,                               \* F(x) x
    <<ID("P"), LP, ID("x"), CM, ID("y"), RP, SP, ID("y"), SP, ID("x")>>,     \* P(x,y) y x
    <<ID("V"), LP, ID("x"), CM, DOT, DOT, DOT, RP, SP,
      ID("x"), SP, ID("__VA_ARGS__")>>,                                  \* V(x,...) x __VA_ARGS__
    <<ID("E"), LP, ID("f"), CM, DOT, DOT, DOT, RP, SP,
      ID("f"), CM, DPOUND, ID("__VA_ARGS__")>> }                         \* E(f,...) f,##__VA_ARGS__

\* Invocations without whitespace
ArgInputs ==
  { SrcLine(<<ID("F"), LP, ID("a"), RP>>),
    SrcLine(<<ID("P"), LP, ID("a"), CM, ID("b"), RP>>),
    SrcLine(<<ID("V"), LP, INT("1"), RP>>),
    SrcLine(<<ID("V"), LP, INT("1"), CM, INT("2"), RP>>),
    SrcLine(<<ID("V"), LP, INT("1"), CM, INT("2"), CM, ID("a"), RP>>),
    SrcLine(<<ID("E"), LP, INT("1"), RP>>),
    SrcLine(<<ID("E"), LP, INT("1"), CM, RP>>) }

\* The places directly around an argument: after '(' or ',', before ',' or ')'
ArgGaps(ts) ==
  { k \in 1..(Len(ts) - 1) : ts[k].value \in {"(", ","} \/ ts[k + 1].value \in {",", ")"} }

\* ts with a space token put into the gaps of S
RECURSIVE Padded(_, _, _)
Padded(ts, S, k) ==
  IF k > Len(ts) THEN <<>>
  ELSE <<ts[k]>> \o (IF k \in S THEN <<SrcTok(SP)>> ELSE <<>>) \o Padded(ts, S, k + 1)

\* Invocations whose argument list is still open at the end of the token list
UnclosedInputs ==
  { SrcLine(<<ID("F"), LP, ID("a")>>),
    SrcLine(<<ID("F"), LP>>),
    SrcLine(<<ID("F"), LP, LP, ID("a"), RP>>),
    SrcLine(<<ID("P"), LP, ID("a"), CM, ID("b")>>),
    SrcLine(<<ID("V"), LP, INT("1"), CM>>) }

NextArgs ==
  \/ \E d \in ArgDefs : ApiDefine(d)
  \/ \E n \in {"F", "P", "V", "E"} : ApiUndef(n)
  \/ \E ts \in UNION { {Padded(b, S, 1) : S \in SUBSET ArgGaps(b)} : b \in ArgInputs } :
       ApiExpand(ts)
  \/ \E ts \in UnclosedInputs : ApiExpand(ts)

SpecArgs == Init /\ [][NextArgs]_vars

(***************************************************************************)
(* Function-like macros whose replacement pastes a parameter with ##.      *)
(***************************************************************************)
PasteDefs ==
  { <<ID("L"), LP, ID("x"), RP, SP, ID("x"), DPOUND, INT("1")>>,             \* L(x) x##1
    <<ID("R"), LP, ID("x"), RP, SP, INT("1"), SP, DPOUND, SP, ID("x")>>,     \* R(x) 1 ## x
    <<ID("B"), LP, ID("x"), CM, ID("y"), RP, SP, ID("x"), DPOUND, ID("y")>>, \* B(x,y) x##y
    <<ID("O"), SP, INT("7")>> }                                              \* O 7

\* An invocation, the argument tokens P stands for and the neighbour T, in
\* the order of the replacement list
PasteCases ==
  { [input |-> SrcLine(<<ID("L"), LP, ID("a"), RP>>), pasted |-> <<"a", "1">>],
    [input |-> SrcLine(<<ID("L"), LP, ID("a"), SP, ID("b"), RP>>), pasted |-> <<"a", " ", "b", "1">>],
    [input |-> SrcLine(<<ID("L"), LP, ID("O"), RP>>), pasted |-> <<"O", "1">>],
    [input |-> SrcLine(<<ID("R"), LP, ID("a"), RP>>), pasted |-> <<"1", "a">>],
    [input |-> SrcLine(<<ID("R"), LP, ID("a"), SP, ID("b"), RP>>), pasted |-> <<"1", "a", " ", "b">>],
    [input |-> SrcLine(<<ID("R"), LP, ID("O"), RP>>), pasted |-> <<"1", "O">>],
    [input |-> SrcLine(<<ID("B"), LP, ID("a"), CM, ID("b"), RP>>), pasted |-> <<"a", "b">>] }

NextPaste ==
  \/ \E d \in PasteDefs : ApiDefine(d)
  \/ \E n \in {"L", "R", "B", "O"} : ApiUndef(n)
  \/ \E c \in PasteCases : ApiExpand(c.input)

SpecPaste == Init /\ [][NextPaste]_vars

(***************************************************************************)
(* #if on operator expressions: one source whose lines are #if with an     *)
(* expression of integer literals, text, and #endif.                       *)
(***************************************************************************)
MaxEvalLines == 3

EvalOperands == {"0", "1", "2"}

\* The operators as the lexer gives them: one token per character
EvalBinaryOps ==
  { <<"+">>, <<"-">>, <<"*">>, <<"/">>, <<"%">>, <<"<">>, <<">">>, <<"&">>, <<"|">>,
    <<"^">>, <<"<", "=">>, <<">", "=">>, <<"=", "=">>, <<"!", "=">>, <<"<", "<">>,
    <<">", ">">>, <<"&", "&">>, <<"|", "|">> }

EvalUnaryOps == {"-", "+", "~", "!"}

Puncts(cs) == List([k \in 1..Len(cs) |-> PUNCT(cs[k])])

EvalExprs ==
  { <<INT(a)>> \o Puncts(op) \o <<INT(b)>> :
      a \in EvalOperands, op \in EvalBinaryOps, b \in EvalOperands }
  \cup { <<PUNCT(op), INT(a)>> : op \in EvalUnaryOps, a \in EvalOperands }
  \cup { <<LP, INT(a), RP>> : a \in EvalOperands }
  \cup { <<INT(a), PUNCT("?"), INT(b), PUNCT(":"), INT(c)>> :
           a \in {"0", "1"}, b \in {"0", "1"}, c \in {"0", "1"} }

IfLine(e) == <<POUND, ID("if"), SP>> \o e \o <<NL>>

EvalLines ==
  { IfLine(e) : e \in EvalExprs } \cup { <<ID("X"), NL>>, Directive1("endif") }

NextEval ==
  \/ Parse("main.c")
  \/ ParsegenStart
  \/ \E line \in EvalLines : ParsegenLine(line, MaxEvalLines)
  \/ ParsegenEnd
  \/ ParsegenReturn

SpecEval == Init /\ [][NextEval]_vars

(***************************************************************************)
(* token() where no generator is running: parse() and token() called again *)
(* and again on one Preprocessor, past the end of each stream.             *)
(***************************************************************************)
MaxTokenLines == 3

\* token() when the generator cannot run: next() of a generator that has
\* died by an exception raises StopIteration, so self.parser becomes None and
\* None is returned; next(None) raises TypeError, which the except clause
\* does not catch.
TokenAtEnd ==
  /\ frames = <<>>
  /\ IF parser = None
     THEN raised' = "TypeError" /\ UNCHANGED parser
     ELSE raised' = NoExc /\ parser' = None
  /\ UNCHANGED <<macros, return_code, stdout, frames, temp_path, self_source, out,
                 atYield, nread, logVars, expVars, origin, writeVars>>

TokenLines ==
  { <<ID("X"), NL>>,
    <<ID("X")>>,
    Directive1("ifdef") }

NextToken ==
  \/ \E src \in ParseSources : Parse(src)
  \/ ParsegenStart
  \/ \E line \in TokenLines : ParsegenLine(line, MaxTokenLines)
  \/ ParsegenEnd
  \/ ParsegenReturn
  \/ TokenAtEnd

SpecToken == Init /\ [][NextToken]_vars

(***************************************************************************)
(* write(): the caller calls parse() and then write(), which takes the     *)
(* tokens of the generator one by one and handles a line as soon as it has *)
(* the token that ends it.                                                 *)
(***************************************************************************)
MaxWriteLines == 5

\* tok.value[0] == '\n', on the spellings of the model
StartsNewline(v) == v \in {"\n", "\n\n\n"}

\* The index in out of the token that ends the line write() is accumulating,
\* 0 if the generator has not yielded it yet.
LineEnd ==
  IF \E e \in (wpos + 1)..Len(out) : StartsNewline(out[e].value)
  THEN CHOOSE e \in (wpos + 1)..Len(out) :
         /\ StartsNewline(out[e].value)
         /\ \A d \in (wpos + 1)..(e - 1) : ~StartsNewline(out[d].value)
  ELSE IF parser = None /\ wpos < Len(out) THEN Len(out)
  ELSE 0

\* all_ws: every token before the one that ends the line is whitespace
AllWS(toks) ==
  \A k \in 1..Len(toks) : StartsNewline(toks[k].value) \/ toks[k].type \in t_WS

\* tok.type in self.t_SPACE or len(tok.value) == 0
IsSpace(tok) == tok.type = t_SPACE \/ tok.value = ""

\* The loop that replaces consecutive whitespace by a single token, n going
\* down from len(toks)-1; first_ws = -1 stands for None.
RECURSIVE Collapse(_, _, _)
Collapse(toks, n, first_ws) ==
  IF n < 0 THEN toks
  ELSE IF first_ws = -1
  THEN Collapse(toks, n - 1, IF IsSpace(At(toks, n)) THEN n ELSE -1)
  ELSE IF ~IsSpace(At(toks, n))
  THEN LET m    == n + 1
           kept == At(toks, first_ws)
           one  == IF kept.value = " " THEN [kept EXCEPT !.value = " "] ELSE kept
       IN  Collapse(Splice(toks, m, first_ws + 1, <<one>>), n - 1, -1)
  ELSE Collapse(toks, n - 1, first_ws)

\* '# ' + str(toks[0].lineno - 1) + ... + '\n'
Marker(tok, last) ==
  "# " \o ToString(tok.lineno - 1)
       \o (IF last = None THEN "" ELSE " \"" \o last \o "\"") \o "\n"

\* The values of a token list, as oh.write() gets them
Values(toks) == List([k \in 1..Len(toks) |-> toks[k].value])

\* Observer: the newlines in a list of written values
RECURSIVE Newlines(_)
Newlines(vs) == IF vs = <<>> THEN 0 ELSE NewlineCount(Head(vs)) + Newlines(Tail(vs))

\* One pass of the outer while of write() for the line that ends at LineEnd.
WriteLine ==
  /\ LineEnd > 0
  /\ LET toks == SubSeq(out, wpos + 1, LineEnd) IN
     IF AllWS(toks)
     THEN \* Remove preceding whitespace so it becomes just a LF
          LET last == toks[Len(toks)] IN
          /\ blankacc' = Append(blankacc, <<last>>)
          /\ blanklines' = blanklines + NewlineCount(last.value)
          /\ UNCHANGED <<lastsource, oh, wlog>>
     ELSE LET has  == toks[1].source # Absent
              emitlinedirective ==
                \/ blanklines > 6
                \/ has /\ lastsource # None /\ lastsource # toks[1].source
              newlast == IF has THEN toks[1].source ELSE lastsource
              line == Collapse(toks, Len(toks) - 1, -1)
              blanks == Values(Concat(blankacc))
          IN
          /\ lastsource' = newlast
          /\ oh' = oh \o (IF emitlinedirective THEN <<Marker(toks[1], newlast)>>
                          ELSE IF blanklines > 0 THEN blanks ELSE <<>>)
                      \o Values(line)
          /\ blankacc' = <<>>
          /\ blanklines' = 0
          /\ wlog' = Append(wlog,
               [marker  |-> emitlinedirective,
                blanks  |-> blanklines,
                written |-> IF emitlinedirective \/ blanklines = 0 THEN 0
                            ELSE Newlines(blanks),
                origin  |-> origin[wpos + 1],
                prev    |-> IF wlog = <<>> THEN Absent ELSE wlog[Len(wlog)].origin])
  /\ wpos' = LineEnd
  /\ UNCHANGED <<coreVars, parseVars, logVars, expVars, origin>>

\* The lines of the inputs and of the file
WriteLines ==
  { <<ID("X"), NL>>,
    <<NL>>,
    <<NL3>>,
    <<POUND, ID("define"), SP, ID("X"), SP, INT("1"), NL>>,
    Directive2("include", STR("\"inc/a.h\"")) }

\* write() calls token() only when it has no line to handle.
NextWrite ==
  \/ parser = None /\ out = <<>> /\ Parse("main.c")
  \/ LineEnd = 0 /\ ParsegenStart
  \/ LineEnd = 0 /\ \E line \in WriteLines : ParsegenLine(line, MaxWriteLines)
  \/ LineEnd = 0 /\ ParsegenDefine
  \/ LineEnd = 0 /\ ParsegenInclude
  \/ LineEnd = 0 /\ ParsegenEnd
  \/ LineEnd = 0 /\ ParsegenReturn
  \/ WriteLine

SpecWrite == Init /\ [][NextWrite]_vars

(***************************************************************************)
(* C1: within one conditional group at most one branch is enabled: the     *)
(* count of enabled branches of every open group is at most one, and a     *)
(* step that leaves the group open and starts with iftrigger true and      *)
(* enable false (a branch of the group was taken before) does not set      *)
(* enable to true.                                                         *)
(***************************************************************************)
C1_AtMostOneBranch ==
  /\ [](\A k \in 1..Len(frames) : \A j \in 1..Len(frames[k].taken) :
          frames[k].taken[j] <= 1)
  /\ [][(/\ frames # <<>> /\ Len(frames') = Len(frames)
         /\ Top.started /\ Top'.started
         /\ Len(Top'.ifstack) = Len(Top.ifstack)
         /\ Top.iftrigger /\ ~Top.enable)
        => ~Top'.enable]_vars

\* A group whose first branch was taken has gone through a later #else or
\* #elif and is still open, with text of the taken branch on the chunk.
C1_Witness ==
  /\ frames # <<>>
  /\ Top.ifstack # <<>> /\ Top.taken[Len(Top.taken)] = 1
  /\ ~Top.enable /\ Top.iftrigger
  /\ \E k \in 1..Len(Top.chunk) : Top.chunk[k].type = t_ID
  /\ Top.lineno >= 5

(***************************************************************************)
(* C2: in every reachable state of parsegen, enable true implies that      *)
(* every entry of ifstack holds an outer enable of true, so no line nested *)
(* in a skipped branch reaches the chunk.                                  *)
(***************************************************************************)
C2_EnableImpliesOuterEnable ==
  \A k \in 1..Len(frames) :
    frames[k].enable => \A j \in 1..Len(frames[k].ifstack) : frames[k].ifstack[j][1]

\* Inside a skipped branch a nested group is open, and its #else or #elif
\* lines have been read without a token reaching the chunk.
C2_Witness ==
  /\ frames # <<>>
  /\ Len(Top.ifstack) = 2 /\ ~Top.ifstack[2][1]
  /\ ~Top.enable
  /\ Top.lineno >= 5
  /\ \A k \in 1..Len(Top.chunk) : Top.chunk[k].type # t_ID

(***************************************************************************)
(* C3: during expand_macros, an identifier naming macro M is never         *)
(* expanded while M is already being expanded in the chain that produces   *)
(* it: no call of expand_macros expands a token whose chain holds the      *)
(* token's own name.                                                       *)
(***************************************************************************)
C3_NoReexpansionInOwnChain == ~xrehit

(***************************************************************************)
(* C4: for every macro table and every token list, expand_macros           *)
(* terminates and returns a token list: no call ends with the runtime's    *)
(* RecursionError.                                                         *)
(***************************************************************************)
C4_ExpandTerminates == raised # "RecursionError"

(***************************************************************************)
(* C5: when the lines of a source end while its ifstack is not empty, a    *)
(* diagnostic is reported: the step that ends the source increments        *)
(* return_code.                                                            *)
(***************************************************************************)
C5_UnterminatedIfReported ==
  [][(/\ frames # <<>> /\ Len(frames') = Len(frames)
      /\ Top.pc = "line" /\ Top'.pc = "return"
      /\ Top.ifstack # <<>>)
     => return_code' > return_code]_vars

(***************************************************************************)
(* C6: return_code starts at 0, never decreases and always equals the      *)
(* number of diagnostics printed: every step adds to it exactly the number *)
(* of messages the step prints.                                            *)
(***************************************************************************)
C6_ReturnCodeCountsDiagnostics ==
  /\ return_code = 0
  /\ [](return_code = Len(stdout))
  /\ [][/\ return_code' >= return_code
        /\ return_code' - return_code = Len(stdout') - Len(stdout)]_vars

\* A diagnostic of define() and one of an #include have been counted.
C6_Witness ==
  /\ return_code = 2
  /\ InSeq("Bad macro definition", stdout)
  /\ InSeq("Couldn't find file", stdout)

(***************************************************************************)
(* C7: write() puts a marker before a non-blank line if and only if more   *)
(* than six blank lines have accumulated since the non-blank line before   *)
(* it or the line comes from another source than that line; with the       *)
(* marker no accumulated blank line is written, without it all of them.    *)
(***************************************************************************)
C7_MarkerIffBlanksOrSourceChange ==
  \A k \in 1..Len(wlog) :
    LET e == wlog[k] IN
    /\ e.marker <=> (e.blanks > 6 \/ (e.prev # Absent /\ e.origin # e.prev))
    /\ e.written = IF e.marker THEN 0 ELSE e.blanks

(***************************************************************************)
(* C8: while an activation of parsegen for source S is the running one,    *)
(* macros['__FILE__'] is the macro whose value is the name of S: in the    *)
(* included file from its first line on, and in the includer again after   *)
(* the #include has finished.                                              *)
(***************************************************************************)
FileMacro(source) == Define(<<>>, FileDef(source)).macros["__FILE__"]

C8_FileMacroNamesSource ==
  (frames # <<>> /\ Top.started) =>
    ("__FILE__" \in DOMAIN macros /\ macros["__FILE__"] = FileMacro(Top.source))

\* Text of an included file has been emitted and the includer is back at
\* its lines.
C8_Witness ==
  /\ Len(frames) = 1 /\ Top.pc = "line" /\ Top.lineno >= 2
  /\ \E k \in 1..Len(out) : out[k].type \notin t_WS /\ out[k].source = "inc/a.h"

(***************************************************************************)
(* C9: temp_path holds the directories of the includes that are running,   *)
(* on top of what parse() left: once an #include has ended, by whatever    *)
(* path, its directory is off temp_path.                                   *)
(***************************************************************************)
RECURSIVE IncludeDirs(_)
IncludeDirs(fs) ==
  IF fs = <<>> THEN <<>>
  ELSE IncludeDirs(Tail(fs)) \o (IF Head(fs).dname # "" THEN <<Head(fs).dname>> ELSE <<>>)

C9_TempPathRestored == temp_path = IncludeDirs(frames) \o parse_path

(***************************************************************************)
(* C10: every token of enabled text is expanded with the macro table as it *)
(* stood when its line was read, and the text is expanded in the order it  *)
(* was read: the tokens handed to expand_macros so far, followed by those  *)
(* still on a chunk, are the tokens read, each with the same table.        *)
(***************************************************************************)
RECURSIVE Pending(_)
Pending(fs) ==
  IF fs = <<>> THEN <<>> ELSE Log(Head(fs).chunk, macros) \o Pending(Tail(fs))

C10_TextMeetsTableOfItsLine ==
  (frames # <<>> \/ parser = None) => flushlog \o Pending(frames) = textlog

\* Text read before and after a directive that changed the table has been
\* expanded, some of it from an included file.
C10_Witness ==
  /\ \E i, j \in 1..Len(flushlog) :
        /\ i < j
        /\ flushlog[i].tok.type = t_ID /\ flushlog[j].tok.type = t_ID
        /\ ("X" \in DOMAIN flushlog[i].table) # ("X" \in DOMAIN flushlog[j].table)
  /\ \E k \in 1..Len(flushlog) : flushlog[k].tok.source = "inc/a.h"

(***************************************************************************)
(* C11: once the stream started by parse() is exhausted (a parsegen has    *)
(* run and self.parser is None again), no call of token() raises: the call *)
(* returns None, whatever the number of calls.                             *)
(***************************************************************************)
C11_TokenNullAfterEnd ==
  [][(parser = None /\ frames = <<>> /\ self_source # Absent) => raised' = NoExc]_vars

(***************************************************************************)
(* C18: once the stream started by parse(text, source) is exhausted,       *)
(* temp_path is what it was before that parse() call.  parse_path is       *)
(* temp_path as that call left it, with the directory of the source in     *)
(* front if the source has one.                                            *)
(***************************************************************************)
BeforeParse ==
  IF self_source \in {"src/main.c"} THEN Tail(parse_path) ELSE parse_path

C18_TempPathAfterParse ==
  (parser = None /\ frames = <<>> /\ self_source # Absent) => temp_path = BeforeParse

(***************************************************************************)
(* C12: every token placed into a macro expansion is a fresh copy.  A      *)
(* token of the list expand_macros returns that carries a macro name in    *)
(* expanded_from was placed into an expansion; it is then an object of its *)
(* own (obj = 0): not an object of the caller's list, not an object of a   *)
(* stored replacement list, and in the list only once.                     *)
(***************************************************************************)
C12_ExpansionTokensAreCopies ==
  \A k \in 1..Len(xtoks) : xtoks[k].expanded_from # <<>> => xtoks[k].obj = 0

(***************************************************************************)
(* C13: an #if whose expression applies one of the operators to integer    *)
(* literals enables its branch exactly when the C constant expression is   *)
(* non-zero, and reports nothing (division by zero excepted).  CValue is   *)
(* the value C gives the expression.                                       *)
(***************************************************************************)
CBool(b) == IF b THEN 1 ELSE 0

CUnary(op, a) ==
  IF op = "-" THEN 0 - a
  ELSE IF op = "+" THEN a
  ELSE IF op = "~" THEN 0 - a - 1
  ELSE CBool(a = 0)

CBinary(a, op, b) ==
  IF op = "+" THEN a + b
  ELSE IF op = "-" THEN a - b
  ELSE IF op = "*" THEN a * b
  ELSE IF op = "/" THEN a \div b
  ELSE IF op = "%" THEN a % b
  ELSE IF op = "<" THEN CBool(a < b)
  ELSE IF op = ">" THEN CBool(a > b)
  ELSE IF op = "<=" THEN CBool(a <= b)
  ELSE IF op = ">=" THEN CBool(a >= b)
  ELSE IF op = "==" THEN CBool(a = b)
  ELSE IF op = "!=" THEN CBool(a # b)
  ELSE IF op \in {"&", "|", "^"} THEN BitOp(op, a, b)
  ELSE IF op = "<<" THEN a * Pow2(b)
  ELSE IF op = ">>" THEN a \div Pow2(b)
  ELSE IF op = "&&" THEN CBool(a # 0 /\ b # 0)
  ELSE CBool(a # 0 \/ b # 0)

CValue(e) ==
  LET n(k) == DecimalValue[e[k].value] IN
  IF Len(e) = 2 THEN CUnary(e[1].value, n(2))
  ELSE IF Len(e) = 3 /\ e[1].value = "(" THEN n(2)
  ELSE IF Len(e) = 3 THEN CBinary(n(1), e[2].value, n(3))
  ELSE IF Len(e) = 4 THEN CBinary(n(1), e[2].value \o e[3].value, n(4))
  ELSE IF n(1) # 0 THEN n(3) ELSE n(5)

DivByZero(e) ==
  Len(e) = 3 /\ e[2].value \in {"/", "%"} /\ e[3].value = "0"

C13_OperatorsEvaluateAsInC ==
  [][\A e \in EvalExprs :
       (/\ frames # <<>> /\ Top.started /\ Top.enable
        /\ ~DivByZero(e)
        /\ ParsegenLine(IfLine(e), MaxEvalLines))
       => (Top'.enable = (CValue(e) # 0) /\ return_code' = return_code)]_vars

C15_UnclosedInvocationReported ==
  [][\A ts \in UnclosedInputs :
       (Head(ts).value \in DOMAIN macros /\ ApiExpand(ts))
         => (return_code' = return_code + 1 /\ raised' = NoExc)]_vars

(***************************************************************************)
(* C17: the expansion of a macro whose replacement pastes a parameter P    *)
(* with a neighbour T holds the unexpanded tokens of the argument next to  *)
(* T and no ## token.                                                      *)
(***************************************************************************)
C17_PasteLeavesNoOperator ==
  [][\A c \in PasteCases :
       (Head(c.input).value \in DOMAIN macros /\ ApiExpand(c.input))
         => (/\ \A k \in 1..Len(xtoks') : xtoks'[k].value # "##"
             /\ Values(xtoks') = c.pasted)]_vars

(***************************************************************************)
(* C16: with one source and no #include, every token of the stream that is *)
(* not whitespace and comes from source line L has exactly L - 1 newline   *)
(* characters before it in the stream, whatever directives and conditional *)
(* groups stand before it.                                                 *)
(***************************************************************************)
RECURSIVE NewlinesBefore(_, _)
NewlinesBefore(toks, k) ==
  IF k <= 1 THEN 0 ELSE NewlinesBefore(toks, k - 1) + NewlineCount(toks[k - 1].value)

C16_TokenKeepsItsLine ==
  \A k \in 1..Len(out) :
    out[k].type \notin t_WS => NewlinesBefore(out, k) = out[k].lineno - 1

(***************************************************************************)
(* C19: the conditional state is local to each source.  While an included  *)
(* file is read and when it has ended, enable, iftrigger and ifstack of    *)
(* every includer are what they were at the #include, even if the included *)
(* file holds unmatched #if, #else or #endif lines.                        *)
(***************************************************************************)
C19_IncluderStateKept ==
  [][(Len(frames) >= 2 /\ Len(frames') >= Len(frames) - 1
        /\ ~(Len(frames') = 1 /\ ~frames'[1].started))
       => \A k \in 1..(Len(frames) - 1) :
            /\ frames'[k].enable = frames[k].enable
            /\ frames'[k].iftrigger = frames[k].iftrigger
            /\ frames'[k].ifstack = frames[k].ifstack]_vars

\* The source is back at its third line inside the group opened before the
\* #include of its second line, after the included file, one line with an
\* unmatched #endif, has ended and its newline has been yielded
C19_Witness ==
  /\ Len(frames) = 1 /\ Top.pc = "line"
  /\ Top.lineno = 3 /\ nread = 3
  /\ Len(out) = 3 /\ out[2].source = "main.c" /\ out[2].lineno = 2
  /\ out[3].source = "inc/a.h"
  /\ Top.enable /\ Len(Top.ifstack) = 1
  /\ stdout = <<"Misplaced #endif">>

(***************************************************************************)
(* C20: while enable is false, a #define, #undef or #include line has no   *)
(* effect: the macro table and temp_path are unchanged, no file is opened  *)
(* (no activation is added), no token is emitted and nothing is reported;  *)
(* only the newline of the directive line is appended to the pending       *)
(* chunk.                                                                  *)
(***************************************************************************)
C20_SkippedDirectiveHasNoEffect ==
  [][\A line \in SkipDirectives :
       (frames # <<>> /\ Top.started /\ ~Top.enable /\ ParsegenLine(line, MaxSkipLines))
         => /\ macros' = macros
            /\ temp_path' = temp_path
            /\ out' = out
            /\ return_code' = return_code
            /\ raised' = NoExc
            /\ frames' = [frames EXCEPT ![Len(frames)] =
                            [Top EXCEPT !.lineno = @ + 1,
                                        !.chunk = @ \o <<GroupLine(line, Top.tag, Top.lineno)[Len(line)]>>]]
    ]_vars

\* The second line of the source, a #define, #undef or #include, has been
\* passed inside the group that #if 0 of the first line skips
C20_Witness ==
  /\ Len(frames) = 1 /\ Top.pc = "line" /\ Top.lineno = 3
  /\ ~Top.enable /\ ~Top.iftrigger /\ Len(Top.ifstack) = 1
  /\ Len(Top.chunk) = 2 /\ Top.chunk[2].lineno = 2

(***************************************************************************)
(* C21: whenever define() reports a diagnostic for a definition (missing   *)
(* ')' in the parameter list, a parameter after the variadic one, a bad    *)
(* macro definition), the macro table is left as it was: the definition    *)
(* neither adds a macro nor replaces one.                                  *)
(***************************************************************************)
C21_RejectedDefinitionChangesNothing ==
  [][(frames # <<>> /\ Top.pc = "define" /\ return_code' > return_code)
       => macros' = macros]_vars


=============================================================================
